---- MODULE Spec2Model ----
(***************************************************************************)
(* Model of src/app.py (SHOWROOM KPI analysis dashboard).                  *)
(*                                                                         *)
(* Spec        : one call of load_and_preprocess_data, one loop iteration  *)
(*               (one monthly HTTP request) per step.                      *)
(* CleanSpec   : the trailing-field repair of one fetched CSV text, on     *)
(*               character level (split(',') / [:-1] / ','.join).          *)
(* SummarySpec : the follower summary of the individual-broadcaster view.  *)
(* RatioSpec   : the six ratio metrics of the individual view.             *)
(* TimeSpec    : the time-of-day bucket aggregation.                       *)
(* HitSpec     : the hit-broadcast detection.                              *)
(* AnalysisSpec: the blocks of the individual view over a table that may   *)
(*               lack columns.                                             *)
(* SessionSpec : script runs of one session (button, session state).       *)
(***************************************************************************)
EXTENDS Integers, Sequences, FiniteSets, TLC

VARIABLES
    pc,            \* position of the modelled code
    account_id,    \* argument of load_and_preprocess_data
    start_date,    \* argument of load_and_preprocess_data
    end_date,      \* argument of load_and_preprocess_data
    current_date,  \* loop variable of the month loop
    all_dfs,       \* list of the monthly tables read so far
    fetch_log,     \* the HTTP requests issued so far, with what came back
    messages,      \* st.error / st.warning calls made so far
    ret,           \* what the call returned (or raised)
    csv_text,      \* CleanSpec: lines of one decoded CSV text
    cleaned_text,  \* CleanSpec: lines handed to the CSV parser
    df,            \* the assembled table of the analysis blocks, in load order
    summary,       \* SummarySpec: what the summary block reports
    kpi,           \* what a KPI block of the individual view produced
    session,       \* SessionSpec: st.session_state
    run            \* SessionSpec: the latest script run (press, loads, captions)

vars == <<pc, account_id, start_date, end_date, current_date, all_dfs,
          fetch_log, messages, ret, csv_text, cleaned_text, df, summary,
          kpi, session, run>>

loadVars == <<account_id, start_date, end_date, current_date, all_dfs,
              fetch_log, messages, ret>>
cleanVars == <<csv_text, cleaned_text>>
summaryVars == <<df, summary>>
auxVars == <<kpi, session, run>>

----------------------------------------------------------------------------
(* Bounds of the model *)

NumMonths == 3       \* calendar months the request dates are drawn from
MaxRows == 1         \* data lines of one monthly CSV file
MaxLineLen == 4      \* characters of one raw data line (CleanSpec)
MaxSummaryRows == 3  \* rows of the assembled table (SummarySpec)
MaxRatioRows == 3    \* rows of the assembled table (RatioSpec)
MaxTimeRows == 2     \* rows of the assembled table (TimeSpec)
MaxHitRows == 3      \* rows of the assembled table (HitSpec)
MaxAbsent == 1       \* numeric columns absent from every month's export
MaxRuns == 4         \* script runs of one session (SessionSpec)

----------------------------------------------------------------------------
(* Dates: datetime.date values, compared as Python compares them *)

Date(y, m, d) == [y |-> y, m |-> m, d |-> d]

NaT == [y |-> 0, m |-> 0, d |-> 0]

IsNaT(ts) == ts.y = 0

DateLE(a, b) ==
    \/ a.y < b.y
    \/ a.y = b.y /\ a.m < b.m
    \/ a.y = b.y /\ a.m = b.m /\ a.d <= b.d

DateGT(a, b) == ~DateLE(a, b)

\* November 2024, counted in months since year 0
FirstMonthIndex == 2024 * 12 + 10

MonthOfIndex(k) == [y |-> k \div 12, m |-> (k % 12) + 1]

MonthIndex(d) == d.y * 12 + d.m - 1

Days == {1, 20}

Dates ==
    { Date(MonthOfIndex(FirstMonthIndex + i).y,
           MonthOfIndex(FirstMonthIndex + i).m, d) :
        i \in 0 .. (NumMonths - 1), d \in Days }

AccountInputs == {"", "mksp", "a1"}

----------------------------------------------------------------------------
(* The monthly CSV resource and what a request for it can bring back *)

ColAccount == "accountId"        \* the account-identifier column
ColTimestamp == "broadcastAt"    \* the broadcast-timestamp column

HeaderFull == <<ColAccount, ColTimestamp>>
HeaderNoTimestamp == <<ColAccount>>

\* the phantom field the export appends to every data line
Trailing == "trailing"

\* The data lines a file of month mo can hold, in file order, each already
\* split on the delimiter: the header's fields plus the trailing field.
CandidateLines(mo, header) ==
    IF header = HeaderFull
    THEN << <<"a1", Date(mo.y, mo.m, 1), Trailing>>,
            <<"b2", Date(mo.y, mo.m, 1), Trailing>>,
            <<"a1", Date(mo.y, mo.m, 20), Trailing>>,
            <<"b2", Date(mo.y, mo.m, 20), Trailing>> >>
    ELSE << <<"a1", Trailing>>, <<"b2", Trailing>> >>

RECURSIVE PickIn(_, _, _)
PickIn(c, I, i) ==
    IF i > Len(c) THEN <<>>
    ELSE (IF i \in I THEN <<c[i]>> ELSE <<>>) \o PickIn(c, I, i + 1)

Bodies(mo) ==
    { [decodable |-> TRUE, header |-> h, lines |-> PickIn(CandidateLines(mo, h), I, 1)] :
        <<h, I>> \in { <<hh, II>> \in {HeaderFull, HeaderNoTimestamp} \X SUBSET (1 .. 4) :
                         /\ II \subseteq DOMAIN CandidateLines(mo, hh)
                         /\ Cardinality(II) <= MaxRows } }
    \cup { [decodable |-> FALSE, header |-> <<>>, lines |-> <<>>] }

NoBody == [decodable |-> FALSE, header |-> <<>>, lines |-> <<>>]

Responses(mo) ==
    { [status |-> "ok", body |-> b] : b \in Bodies(mo) }
    \cup { [status |-> "notfound", body |-> NoBody],
           [status |-> "neterror", body |-> NoBody] }

----------------------------------------------------------------------------
(* load_and_preprocess_data: the pieces of its body *)

InvalidAccountUnchecked(a) == FALSE

\* line 111: if not account_id
InvalidAccount(a) == a = ""

\* line 115: if start_date > end_date
InvalidRange(s, e) == DateGT(s, e)

NextMonthStartSameYear(d) == Date(d.y, (d.m % 12) + 1, 1)

\* lines 147-150: the first day of the next calendar month
NextMonthStart(d) ==
    IF d.m = 12 THEN Date(d.y + 1, 1, 1) ELSE Date(d.y, d.m + 1, 1)

\* lines 128-137: the exception the try block raises for a response, if any.
\* requests.get raises ConnectionError on a transport failure and
\* raise_for_status raises HTTPError on a 404: both are RequestException.
\* Bytes that do not decode raise UnicodeDecodeError, which is not.
RaisedBy(resp) ==
    IF resp.status # "ok" THEN "RequestException"
    ELSE IF ~resp.body.decodable THEN "Exception"
    ELSE "none"

\* lines 141-145: the two except clauses
OnExceptionAbortAll(exc) == "abort"

OnExceptionSkipAll(exc) == "skip"

OnException(exc) == IF exc = "RequestException" THEN "skip" ELSE "abort"

CleanTokensDropPenultimate(tokens) ==
    IF Len(tokens) < 2 THEN <<>>
    ELSE SubSeq(tokens, 1, Len(tokens) - 2) \o <<tokens[Len(tokens)]>>

\* line 134: line.split(',')[:-1]
CleanTokens(tokens) == SubSeq(tokens, 1, Len(tokens) - 1)

\* line 134: the list comprehension over data_lines
CleanDataLines(lines) == [i \in DOMAIN lines |-> CleanTokens(lines[i])]

\* lines 136-138: pd.read_csv of header + cleaned lines; a row is kept as
\* its account identifier and its timestamp (NaT where there is no such column)
ReadCsv(header, data) ==
    [columns |-> {header[i] : i \in DOMAIN header},
     rows |-> [i \in DOMAIN data |->
                 [acct |-> data[i][1],
                  ts |-> IF Len(header) >= 2 /\ Len(data[i]) >= 2
                         THEN data[i][2] ELSE NaT]]]

RECURSIVE ConcatRows(_)
ConcatRows(dfs) ==
    IF dfs = <<>> THEN <<>> ELSE Head(dfs).rows \o ConcatRows(Tail(dfs))

\* line 156: pd.concat(all_dfs, ignore_index=True): the union of the columns,
\* the rows in list order, missing cells filled with NaN
Concat(dfs) ==
    [columns |-> UNION {dfs[i].columns : i \in DOMAIN dfs},
     rows |-> ConcatRows(dfs)]

\* lines 162-165: the identity filter
FilterAccount(rows, a) ==
    IF a = "mksp" THEN rows
    ELSE LET Keep(r) == r.acct = a IN SelectSeq(rows, Keep)

FilterWindowEndExclusive(rows, s, e) ==
    LET Keep(r) == ~IsNaT(r.ts) /\ DateLE(s, r.ts) /\ DateLE(r.ts, e) /\ r.ts # e
    IN SelectSeq(rows, Keep)

\* lines 167-170: the date window, both ends inclusive
FilterWindow(rows, s, e) ==
    LET Keep(r) == ~IsNaT(r.ts) /\ DateLE(s, r.ts) /\ DateLE(r.ts, e)
    IN SelectSeq(rows, Keep)

HasNaT(rows) == \E i \in DOMAIN rows : IsNaT(rows[i].ts)

NoneNone == [kind |-> "none", rows |-> <<>>, exc |-> "none"]
Pending == [kind |-> "pending", rows |-> <<>>, exc |-> "none"]
Table(rows) == [kind |-> "table", rows |-> rows, exc |-> "none"]
Raised(exc) == [kind |-> "raised", rows |-> <<>>, exc |-> exc]

----------------------------------------------------------------------------
(* load_and_preprocess_data: the steps *)

Init ==
    /\ pc = "start"
    /\ account_id \in AccountInputs
    /\ start_date \in Dates
    /\ end_date \in Dates
    /\ current_date = NaT
    /\ all_dfs = <<>>
    /\ fetch_log = <<>>
    /\ messages = <<>>
    /\ ret = Pending
    /\ csv_text = <<>>
    /\ cleaned_text = <<>>
    /\ df = <<>>
    /\ summary = <<>>
    /\ kpi = <<>>
    /\ session = <<>>
    /\ run = <<>>

\* lines 110-120: the two input checks, then the loop starts at start_date
Validate ==
    /\ pc = "start"
    /\ IF InvalidAccount(account_id)
       THEN /\ messages' = Append(messages, "error_no_account")
            /\ ret' = NoneNone
            /\ pc' = "done"
            /\ UNCHANGED current_date
       ELSE IF InvalidRange(start_date, end_date)
       THEN /\ messages' = Append(messages, "error_date_order")
            /\ ret' = NoneNone
            /\ pc' = "done"
            /\ UNCHANGED current_date
       ELSE /\ current_date' = start_date
            /\ pc' = "loop"
            /\ UNCHANGED <<messages, ret>>
    /\ UNCHANGED <<account_id, start_date, end_date, all_dfs, fetch_log>>
    /\ UNCHANGED <<cleanVars, summaryVars, auxVars>>

\* lines 121-150: one iteration of the month loop
FetchMonth ==
    /\ pc = "loop"
    /\ DateLE(current_date, end_date)
    /\ \E resp \in Responses([y |-> current_date.y, m |-> current_date.m]) :
         LET exc == RaisedBy(resp) IN
         /\ fetch_log' = Append(fetch_log,
                [y |-> current_date.y, m |-> current_date.m,
                 status |-> resp.status, decodable |-> resp.body.decodable])
         /\ IF exc = "none"
            THEN /\ all_dfs' = Append(all_dfs,
                        ReadCsv(resp.body.header, CleanDataLines(resp.body.lines)))
                 /\ current_date' = NextMonthStart(current_date)
                 /\ UNCHANGED <<messages, ret, pc>>
            ELSE IF OnException(exc) = "skip"
            THEN /\ messages' = Append(messages, "warning_month_skipped")
                 /\ current_date' = NextMonthStart(current_date)
                 /\ UNCHANGED <<all_dfs, ret, pc>>
            ELSE /\ messages' = Append(messages, "error_csv_processing")
                 /\ ret' = NoneNone
                 /\ pc' = "done"
                 /\ UNCHANGED <<all_dfs, current_date>>
    /\ UNCHANGED <<account_id, start_date, end_date>>
    /\ UNCHANGED <<cleanVars, summaryVars, auxVars>>

\* lines 152-194: after the loop. Comparing a NaT cell with a datetime.date
\* (line 168) raises TypeError in some pandas releases and is False in
\* others: both outcomes are kept.
Assemble ==
    /\ pc = "loop"
    /\ ~DateLE(current_date, end_date)
    /\ pc' = "done"
    /\ IF all_dfs = <<>>
       THEN /\ messages' = Append(messages, "error_no_data")
            /\ ret' = NoneNone
       ELSE LET combined == Concat(all_dfs)
                byAccount == FilterAccount(combined.rows, account_id)
                filtered == FilterWindow(byAccount, start_date, end_date)
            IN IF ColTimestamp \notin combined.columns
               THEN /\ ret' = Raised("KeyError")
                    /\ UNCHANGED messages
               ELSE \/ /\ HasNaT(byAccount)
                       /\ ret' = Raised("TypeError")
                       /\ UNCHANGED messages
                    \/ IF filtered = <<>>
                       THEN /\ messages' = Append(messages, "warning_no_rows")
                            /\ ret' = NoneNone
                       ELSE /\ ret' = Table(filtered)
                            /\ UNCHANGED messages
    /\ UNCHANGED <<account_id, start_date, end_date, current_date, all_dfs, fetch_log>>
    /\ UNCHANGED <<cleanVars, summaryVars, auxVars>>

Next == Validate \/ FetchMonth \/ Assemble

Spec == Init /\ [][Next]_vars

FairSpec == Spec /\ WF_vars(Next)

----------------------------------------------------------------------------
(* Properties of load_and_preprocess_data *)

Requested == [i \in DOMAIN fetch_log |-> [y |-> fetch_log[i].y, m |-> fetch_log[i].m]]

\* the calendar months that intersect [s, e], in ascending order
ExpectedMonths(s, e) ==
    [i \in 1 .. (MonthIndex(e) - MonthIndex(s) + 1) |-> MonthOfIndex(MonthIndex(s) + i - 1)]

IsPrefix(a, b) == Len(a) <= Len(b) /\ \A i \in DOMAIN a : a[i] = b[i]

LastMessage == IF messages = <<>> THEN "none" ELSE messages[Len(messages)]

ValidInput == account_id # "" /\ DateLE(start_date, end_date)

CsvAborted == LastMessage = "error_csv_processing"

C1_Enumerated ==
    (ValidInput /\ pc # "start") =>
        /\ IsPrefix(Requested, ExpectedMonths(start_date, end_date))
        /\ (pc = "done" /\ ~CsvAborted) =>
              Requested = ExpectedMonths(start_date, end_date)

\* the loop is never stuck: until the call has ended some step is possible
C1_NotStuck == pc # "done" => ENABLED Next

\* an iteration that stays in the loop moves to the first day of the next month
C1_Progress ==
    (pc = "loop" /\ pc' = "loop") =>
        /\ MonthIndex(current_date') = MonthIndex(current_date) + 1
        /\ current_date'.d = 1
        /\ Len(fetch_log') = Len(fetch_log) + 1

\* C1: for start <= end the months requested are, at every moment, an initial
\* part of the ascending list of the calendar months that intersect
\* [start, end] (so no month is requested twice, out of order or outside the
\* range, also across December/January), and the list is requested in full by
\* the time the loop ends without the CSV abort. The loop ends: every
\* iteration requests one more month of that finite list and moves one month
\* on, and the call is never stuck before it has returned.
C1_MonthEnumeration == [](C1_Enumerated /\ C1_NotStuck) /\ [][C1_Progress]_vars

\* the same termination as a liveness property of the fair specification
C1_Terminates == <>(pc = "done")

C1_Witness ==
    /\ pc = "done"
    /\ ~CsvAborted
    /\ start_date.d = 20
    /\ Len(fetch_log) = 3
    /\ fetch_log[2].m = 12
    /\ fetch_log[3].m = 1
    /\ fetch_log[3].y = fetch_log[2].y + 1

\* C2: with an empty account identifier or start_date > end_date the call
\* never issues a request and never reads a table, and it ends having
\* reported exactly one error and returned (None, None).
C2_ValidationBeforeIO ==
    (account_id = "" \/ DateGT(start_date, end_date)) =>
        /\ fetch_log = <<>>
        /\ all_dfs = <<>>
        /\ pc \in {"start", "done"}
        /\ pc = "done" =>
              /\ ret = NoneNone
              /\ messages \in { <<"error_no_account">>, <<"error_date_order">> }

C2_Witness ==
    /\ pc = "done"
    /\ account_id = ""
    /\ DateLE(start_date, end_date)
    /\ messages = <<"error_no_account">>

LoggedNow(status) ==
    /\ Len(fetch_log') = Len(fetch_log) + 1
    /\ fetch_log'[Len(fetch_log')].status = status

C3_SkipStep ==
    LoggedNow("notfound") =>
        /\ pc' = "loop"
        /\ ret' = Pending
        /\ all_dfs' = all_dfs
        /\ current_date' # current_date
        /\ messages' = Append(messages, "warning_month_skipped")

C3_Outcome ==
    (pc = "done" /\ ValidInput /\ ~CsvAborted) =>
        /\ Requested = ExpectedMonths(start_date, end_date)
        /\ all_dfs = <<>> => (ret = NoneNone /\ LastMessage = "error_no_data")
        /\ all_dfs # <<>> => LastMessage # "error_no_data"

\* C3: a request answered not-found only adds a warning and moves the loop on
\* to the next month; a call that is not aborted by the CSV error requests
\* every month of the range, ends with the error "no data for the period" and
\* (None, None) when no month was read, and does not end with that error when
\* at least one month was read.
C3_NotFoundSkipped == [](C3_Outcome) /\ [][C3_SkipStep]_vars

C3_Witness ==
    /\ pc = "done"
    /\ Len(fetch_log) = 2
    /\ fetch_log[1].status = "notfound"
    /\ fetch_log[2].status = "ok"
    /\ ret.kind = "table"

\* C4: a transport failure other than not-found is the last request of the
\* call, which ends with an error reported and (None, None) returned.
C4_NetworkFailureFatal ==
    \A i \in DOMAIN fetch_log :
        fetch_log[i].status = "neterror" =>
            /\ i = Len(fetch_log)
            /\ pc = "done"
            /\ ret = NoneNone
            /\ LastMessage \in {"error_csv_processing", "error_no_data"}

\* C5: a month whose content cannot be processed is the last request of the
\* call, which ends at once with (None, None), whatever was read before.
C5_CsvErrorAborts ==
    \A i \in DOMAIN fetch_log :
        (fetch_log[i].status = "ok" /\ ~fetch_log[i].decodable) =>
            /\ i = Len(fetch_log)
            /\ pc = "done"
            /\ ret = NoneNone
            /\ LastMessage = "error_csv_processing"

C5_Witness ==
    /\ pc = "done"
    /\ Len(fetch_log) = 2
    /\ fetch_log[1].status = "ok" /\ fetch_log[1].decodable
    /\ Len(all_dfs) = 1 /\ all_dfs[1].rows # <<>>
    /\ fetch_log[2].status = "ok" /\ ~fetch_log[2].decodable
    /\ Len(ExpectedMonths(start_date, end_date)) = 3

FatalOutcome ==
    \/ ret.kind = "raised"
    \/ ret = NoneNone /\ LastMessage \in {"error_csv_processing", "error_no_data"}

\* C6: when the table of some month read lacks the broadcast-timestamp
\* column, the call ends in a fatal error: in particular it returns no table.
C6_MissingTimestampFatal ==
    (pc = "done" /\ \E i \in DOMAIN all_dfs : ColTimestamp \notin all_dfs[i].columns)
        => (ret.kind = "table" => FatalOutcome)

\* what the batch-fatal fetch errors hand to the caller (lines 145 and 154)
FatalReturnValues == {NoneNone}

\* C7: the value returned when months were read but no row matches differs
\* from the value returned on a batch-fatal fetch error.
C7_EmptyResultDistinct ==
    (pc = "done" /\ LastMessage = "warning_no_rows") => ret \notin FatalReturnValues

Count(rows, r) == Cardinality({i \in DOMAIN rows : rows[i] = r})

Selected(r) ==
    /\ ~IsNaT(r.ts)
    /\ DateLE(start_date, r.ts)
    /\ DateLE(r.ts, end_date)
    /\ (account_id = "mksp" \/ r.acct = account_id)

\* C8: a returned table holds exactly the rows of the concatenated monthly
\* tables dated within [start_date, end_date], both ends included, that carry
\* the selected account identifier, or any identifier for the selector "mksp".
C8_ReturnedRows ==
    (pc = "done" /\ ret.kind = "table") =>
        LET all == ConcatRows(all_dfs) IN
        \A r \in {all[i] : i \in DOMAIN all} \cup {ret.rows[i] : i \in DOMAIN ret.rows} :
            Count(ret.rows, r) = IF Selected(r) THEN Count(all, r) ELSE 0

C8_Witness ==
    /\ pc = "done"
    /\ ret.kind = "table"
    /\ account_id = "a1"
    /\ Len(ret.rows) = 2
    /\ Len(ConcatRows(all_dfs)) = 3
    /\ ret.rows[2].ts = end_date

----------------------------------------------------------------------------
(* The trailing-field repair on the text of one file (lines 131-135).       *)
(* A line is a sequence of characters; csv_text holds the lines of          *)
(* csv_text.strip().split('\n'), the header line first.                     *)

Chars == {",", "a", "b"}

LinesUpTo(n) == UNION { [1 .. k -> Chars] : k \in 0 .. n }

HeaderLines ==
    { <<"a">>, <<"a", ",", "b">>, <<"a", ",", "b", ",", "a">>, <<"a", ",", "b", ",">> }

\* str.split(','): the pieces between the delimiters, '' for an empty piece
RECURSIVE SplitComma(_)
SplitComma(line) ==
    IF line = <<>> THEN << <<>> >>
    ELSE LET rest == SplitComma(Tail(line)) IN
         IF Head(line) = "," THEN << <<>> >> \o rest
         ELSE << <<Head(line)>> \o Head(rest) >> \o Tail(rest)

\* ','.join(tokens)
RECURSIVE JoinComma(_)
JoinComma(tokens) ==
    IF tokens = <<>> THEN <<>>
    ELSE IF Len(tokens) = 1 THEN tokens[1]
    ELSE tokens[1] \o <<",">> \o JoinComma(Tail(tokens))

\* line 134: ','.join(line.split(',')[:-1])
CleanLine(line) == JoinComma(CleanTokens(SplitComma(line)))

\* lines 132-135: the header line as it is, then the cleaned data lines
CleanedCsvLines(lines) ==
    <<lines[1]>> \o [i \in 1 .. (Len(lines) - 1) |-> CleanLine(lines[i + 1])]

CleanInit ==
    /\ pc = "clean_start"
    /\ \E h \in HeaderLines :
       \E k \in 1 .. MaxRows :
       \E data \in [1 .. k -> LinesUpTo(MaxLineLen)] :
           csv_text = <<h>> \o data
    /\ cleaned_text = <<>>
    /\ account_id = ""
    /\ start_date = NaT
    /\ end_date = NaT
    /\ current_date = NaT
    /\ all_dfs = <<>>
    /\ fetch_log = <<>>
    /\ messages = <<>>
    /\ ret = Pending
    /\ df = <<>>
    /\ summary = <<>>
    /\ kpi = <<>>
    /\ session = <<>>
    /\ run = <<>>

CleanCsv ==
    /\ pc = "clean_start"
    /\ cleaned_text' = CleanedCsvLines(csv_text)
    /\ pc' = "clean_done"
    /\ UNCHANGED <<csv_text, loadVars, summaryVars, auxVars>>

CleanNext == CleanCsv

CleanSpec == CleanInit /\ [][CleanNext]_vars

\* C9: the header line reaches the parser unchanged, and every data line with
\* N+1 comma-separated fields against an N-field header reaches it with
\* exactly N fields, equal in order to the first N raw fields, so that the
\* Nth is the penultimate raw field and the last raw field is the one dropped.
C9_TrailingFieldRepair ==
    pc = "clean_done" =>
        /\ Len(cleaned_text) = Len(csv_text)
        /\ cleaned_text[1] = csv_text[1]
        /\ \A i \in 2 .. Len(csv_text) :
              LET N == Len(SplitComma(csv_text[1]))
                  raw == SplitComma(csv_text[i])
                  out == SplitComma(cleaned_text[i])
              IN Len(raw) = N + 1 =>
                    /\ Len(out) = N
                    /\ \A k \in 1 .. N : out[k] = raw[k]
                    /\ out[N] = raw[Len(raw) - 1]

C9_Witness ==
    /\ pc = "clean_done"
    /\ csv_text[1] = <<"a", ",", "b">>
    /\ csv_text[2] = <<"b", ",", "a", ",">>
    /\ cleaned_text[2] = <<"b", ",", "a">>

----------------------------------------------------------------------------
(* The follower summary of the individual-broadcaster view (lines 680-698). *)
(* df is the assembled table in load order; a broadcaster has one row per   *)
(* broadcast start time, so the timestamps of df are pairwise distinct.     *)

NaN == -1

FollowerValues == {98, 100, 120, NaN}

DeltaValues == {0, 5}

SummaryRows ==
    [ts : 1 .. MaxSummaryRows, followers : FollowerValues, delta : DeltaValues]

DistinctTs(rows) ==
    \A i, j \in DOMAIN rows : i # j => rows[i].ts # rows[j].ts

\* insert r into rows, which are ascending by ts
RECURSIVE InsertByTs(_, _)
InsertByTs(r, rows) ==
    IF rows = <<>> THEN <<r>>
    ELSE IF r.ts < Head(rows).ts THEN <<r>> \o rows
    ELSE <<Head(rows)>> \o InsertByTs(r, Tail(rows))

\* line 692: sort_values by the broadcast timestamp, ascending
RECURSIVE SortAscending(_)
SortAscending(rows) ==
    IF rows = <<>> THEN <<>>
    ELSE InsertByTs(Head(rows), SortAscending(Tail(rows)))

Reverse(rows) == [i \in DOMAIN rows |-> rows[Len(rows) + 1 - i]]

\* line 680: sort_values by the broadcast timestamp, descending
SortDescending(rows) == Reverse(SortAscending(rows))

NotReported == [reported |-> FALSE, raised |-> FALSE, increase |-> 0, final |-> 0]
SummaryRaised == [reported |-> FALSE, raised |-> TRUE, increase |-> 0, final |-> 0]

FollowerSummaryOfDeltas(table) ==
    LET df_display == SortDescending(table.rows)
        df_sorted_by_date == SortAscending(df_display)
        Sum[i \in 0 .. Len(df_display)] ==
            IF i = 0 THEN 0 ELSE Sum[i - 1] + df_display[i].delta
    IN IF ~table.has_followers \/ df_display = <<>> THEN NotReported
       ELSE IF df_sorted_by_date[Len(df_sorted_by_date)].followers = NaN
               \/ df_sorted_by_date[1].followers = NaN
       THEN SummaryRaised
       ELSE [reported |-> TRUE, raised |-> FALSE,
             increase |-> Sum[Len(df_display)],
             final |-> df_sorted_by_date[Len(df_sorted_by_date)].followers]

\* lines 680 and 691-698: int() of a missing follower count raises ValueError
FollowerSummary(table) ==
    LET df_display == SortDescending(table.rows)
        df_sorted_by_date == SortAscending(df_display)
    IN IF ~table.has_followers \/ df_display = <<>> THEN NotReported
       ELSE LET final_followers == df_sorted_by_date[Len(df_sorted_by_date)].followers
                initial_followers == df_sorted_by_date[1].followers
            IN IF final_followers = NaN \/ initial_followers = NaN
               THEN SummaryRaised
               ELSE [reported |-> TRUE, raised |-> FALSE,
                     increase |-> final_followers - initial_followers,
                     final |-> final_followers]

SummaryInit ==
    /\ pc = "summary_start"
    /\ \E k \in 1 .. MaxSummaryRows :
       \E rows \in [1 .. k -> SummaryRows] :
       \E has \in BOOLEAN :
           /\ DistinctTs(rows)
           /\ has = FALSE => \A i \in DOMAIN rows : rows[i].followers = NaN
           /\ df = [has_followers |-> has, rows |-> rows]
    /\ summary = NotReported
    /\ csv_text = <<>>
    /\ cleaned_text = <<>>
    /\ account_id = "a1"
    /\ start_date = NaT
    /\ end_date = NaT
    /\ current_date = NaT
    /\ all_dfs = <<>>
    /\ fetch_log = <<>>
    /\ messages = <<>>
    /\ ret = Pending
    /\ kpi = <<>>
    /\ session = <<>>
    /\ run = <<>>

Summarize ==
    /\ pc = "summary_start"
    /\ summary' = FollowerSummary(df)
    /\ pc' = "summary_done"
    /\ UNCHANGED <<df, loadVars, cleanVars, auxVars>>

SummaryNext == Summarize

SummarySpec == SummaryInit /\ [][SummaryNext]_vars

Latest(rows) == CHOOSE r \in {rows[i] : i \in DOMAIN rows} :
                    \A j \in DOMAIN rows : rows[j].ts <= r.ts

Earliest(rows) == CHOOSE r \in {rows[i] : i \in DOMAIN rows} :
                      \A j \in DOMAIN rows : r.ts <= rows[j].ts

\* C10: whenever the follower column is there and the earliest and the latest
\* row carry a follower count, the summary is reported, the net increase is
\* the latest row's count minus the earliest row's count and the latest count
\* is that of the latest row, whatever the other rows, the per-row deltas and
\* the load order are; nothing else is ever reported.
C10_NetFollowerIncrease ==
    pc = "summary_done" =>
        LET last == Latest(df.rows)
            first == Earliest(df.rows)
            defined == df.has_followers /\ last.followers # NaN /\ first.followers # NaN
        IN /\ summary.reported <=> defined
           /\ summary.reported =>
                 /\ summary.final = last.followers
                 /\ summary.increase = last.followers - first.followers

C10_Witness ==
    /\ pc = "summary_done"
    /\ summary.reported
    /\ Len(df.rows) = 3
    /\ df.rows[1].ts = 2 /\ df.rows[2].ts = 3 /\ df.rows[3].ts = 1
    /\ df.rows[3].followers = 100 /\ df.rows[1].followers = 98 /\ df.rows[2].followers = 120
    /\ df.rows[1].delta = 5 /\ df.rows[2].delta = 5 /\ df.rows[3].delta = 5
    /\ summary.increase = 20
    /\ summary.final = 120

----------------------------------------------------------------------------
(* What the variables of the other specifications hold meanwhile *)

LoadIdle ==
    /\ account_id = "a1"
    /\ start_date = NaT
    /\ end_date = NaT
    /\ current_date = NaT
    /\ all_dfs = <<>>
    /\ fetch_log = <<>>
    /\ messages = <<>>
    /\ ret = Pending

CleanIdle == csv_text = <<>> /\ cleaned_text = <<>>

----------------------------------------------------------------------------
(* The ratio metrics of the individual view (lines 722-798).                *)
(* A row is a function from the numeric columns to a number or NaN.         *)

NumericColumns ==
    {"total_views", "members", "followers", "points", "comments", "gifts",
     "sg_total", "commenters", "first_commenters", "gifters", "first_gifters",
     "follower_delta", "first_visitors", "minutes", "short_stay",
     "sg_gifts", "sg_gifters"}

\* the six metrics: name, numerator column, denominator column
RatioMetrics ==
    << [name |-> "first_time_rate", num |-> "first_visitors", den |-> "total_views"],
       [name |-> "first_comment_rate", num |-> "first_commenters", den |-> "commenters"],
       [name |-> "first_gift_rate", num |-> "first_gifters", den |-> "gifters"],
       [name |-> "short_stay_rate", num |-> "short_stay", den |-> "members"],
       [name |-> "sg_gift_rate", num |-> "sg_gifts", den |-> "gifts"],
       [name |-> "sg_person_rate", num |-> "sg_gifters", den |-> "gifters"] >>

DropNaFillZero(rows, cols) ==
    [i \in DOMAIN rows |->
        [c \in DOMAIN rows[i] |-> IF c \in cols /\ rows[i][c] = NaN THEN 0 ELSE rows[i][c]]]

\* dropna(subset=cols): the rows that carry a value in every column of cols
DropNa(rows, cols) ==
    LET Keep(r) == \A c \in cols : r[c] # NaN IN SelectSeq(rows, Keep)

\* Series.sum() of a column without missing values; 0 for no rows
RECURSIVE SumCol(_, _)
SumCol(rows, c) ==
    IF rows = <<>> THEN 0 ELSE Head(rows)[c] + SumCol(Tail(rows), c)

\* f"{n / d * 100:.1f}": the percentage in tenths, the nearest one, the even
\* one of two equally near
RoundTenths(n, d) ==
    LET q == (1000 * n) \div d
        r2 == 2 * ((1000 * n) % d)
    IN IF r2 > d \/ (r2 = d /\ q % 2 = 1) THEN q + 1 ELSE q

\* the conditional expression of lines 726, 739, 752, 765, 778 and 791
RateText(n, d) ==
    IF d > 0 THEN [zero_text |-> FALSE, tenths |-> RoundTenths(n, d)]
    ELSE [zero_text |-> TRUE, tenths |-> 0]

\* one "with" block: dropna on both columns, the two sums, the rate
RatioMetric(rows, numcol, dencol) ==
    LET kept == DropNa(rows, {numcol, dencol})
    IN RateText(SumCol(kept, numcol), SumCol(kept, dencol))

RatioValuesNum == {NaN, 2, 5}
RatioValuesDen == {NaN, 0, 8, 10}

\* a row that carries n and d in the columns of metric m and nothing else
RatioRow(m, n, d) ==
    [c \in NumericColumns |->
        IF c = m.num THEN n ELSE IF c = m.den THEN d ELSE NaN]

RatioInit ==
    /\ pc = "ratio_start"
    /\ \E mi \in DOMAIN RatioMetrics :
       \E k \in 1 .. MaxRatioRows :
       \E ns \in [1 .. k -> RatioValuesNum] :
       \E ds \in [1 .. k -> RatioValuesDen] :
           df = [rows |-> [i \in 1 .. k |-> RatioRow(RatioMetrics[mi], ns[i], ds[i])]]
    /\ summary = <<>>
    /\ kpi = <<>>
    /\ session = <<>>
    /\ run = <<>>
    /\ LoadIdle
    /\ CleanIdle

\* lines 722-798: the six metric blocks
ComputeRatios ==
    /\ pc = "ratio_start"
    /\ kpi' = [i \in DOMAIN RatioMetrics |->
                 RatioMetric(df.rows, RatioMetrics[i].num, RatioMetrics[i].den)]
    /\ pc' = "ratio_done"
    /\ UNCHANGED <<df, summary, session, run, loadVars, cleanVars>>

RatioNext == ComputeRatios

RatioSpec == RatioInit /\ [][RatioNext]_vars

RECURSIVE SumOver(_, _, _)
SumOver(I, rows, c) ==
    IF I = {} THEN 0
    ELSE LET i == CHOOSE j \in I : TRUE IN rows[i][c] + SumOver(I \ {i}, rows, c)

\* t is the percentage n/d in tenths, rounded to the nearest, ties to even
IsRoundedRate(t, n, d) ==
    LET diff == IF 1000 * n >= t * d THEN 1000 * n - t * d ELSE t * d - 1000 * n
    IN /\ 2 * diff <= d
       /\ 2 * diff = d => t % 2 = 0

BothPresent(rows, m) == {i \in DOMAIN rows : rows[i][m.num] # NaN /\ rows[i][m.den] # NaN}

\* C11: each of the six rates is the sum of the numerator over the sum of the
\* denominator, both taken over exactly the rows that carry both columns (a
\* row missing either adds to neither sum), as a percentage with one decimal;
\* when that denominator sum is not positive the text "0%" stands instead.
C11_RatioOverCompleteRows ==
    pc = "ratio_done" =>
        \A i \in DOMAIN RatioMetrics :
            LET m == RatioMetrics[i]
                I == BothPresent(df.rows, m)
                n == SumOver(I, df.rows, m.num)
                d == SumOver(I, df.rows, m.den)
            IN IF d > 0
               THEN ~kpi[i].zero_text /\ IsRoundedRate(kpi[i].tenths, n, d)
               ELSE kpi[i].zero_text

\* rows {num 5, den 10}, {num missing, den 8}, {num 2, den missing}: 50.0%
C11_Witness ==
    /\ pc = "ratio_done"
    /\ Len(df.rows) = 3
    /\ df.rows[1]["first_visitors"] = 5 /\ df.rows[1]["total_views"] = 10
    /\ df.rows[2]["first_visitors"] = NaN /\ df.rows[2]["total_views"] = 8
    /\ df.rows[3]["first_visitors"] = 2 /\ df.rows[3]["total_views"] = NaN
    /\ kpi[1] = [zero_text |-> FALSE, tenths |-> 500]

\* C12: a row whose denominator is zero adds nothing to the numerator sum of
\* the aggregate ratio, and no rate is the result of a division by zero.
C12_ZeroDenominatorExcluded ==
    pc = "ratio_done" =>
        \A i \in DOMAIN RatioMetrics :
            LET m == RatioMetrics[i]
                I == {j \in BothPresent(df.rows, m) : df.rows[j][m.den] # 0}
                n == SumOver(I, df.rows, m.num)
                d == SumOver(I, df.rows, m.den)
            IN IF d > 0
               THEN ~kpi[i].zero_text /\ IsRoundedRate(kpi[i].tenths, n, d)
               ELSE kpi[i].zero_text

----------------------------------------------------------------------------
(* Time-of-day buckets (lines 196-214) and their aggregation               *)
(* (lines 530-546 and 610-617).  A label is written by its hour range.     *)

CategorizeInclusivePeak(hour) ==
    IF 3 <= hour /\ hour < 6 THEN "3-6"
    ELSE IF 6 <= hour /\ hour < 9 THEN "6-9"
    ELSE IF 9 <= hour /\ hour < 12 THEN "9-12"
    ELSE IF 12 <= hour /\ hour < 15 THEN "12-15"
    ELSE IF 15 <= hour /\ hour < 18 THEN "15-18"
    ELSE IF 18 <= hour /\ hour < 21 THEN "18-21"
    ELSE IF 21 <= hour /\ hour <= 22 THEN "21-22"
    ELSE IF 22 <= hour /\ hour < 24 THEN "22-24"
    ELSE "0-3"

\* categorize_time_of_day_with_range(hour)
Categorize(hour) ==
    IF 3 <= hour /\ hour < 6 THEN "3-6"
    ELSE IF 6 <= hour /\ hour < 9 THEN "6-9"
    ELSE IF 9 <= hour /\ hour < 12 THEN "9-12"
    ELSE IF 12 <= hour /\ hour < 15 THEN "12-15"
    ELSE IF 15 <= hour /\ hour < 18 THEN "15-18"
    ELSE IF 18 <= hour /\ hour < 21 THEN "18-21"
    ELSE IF 21 <= hour /\ hour < 22 THEN "21-22"
    ELSE IF 22 <= hour /\ hour < 24 THEN "22-24"
    ELSE "0-3"

time_of_day_order ==
    <<"0-3", "3-6", "6-9", "9-12", "12-15", "15-18", "18-21", "21-22", "22-24">>

Hours == 0 .. 23
PointValues == {0, 10}

TimeRows ==
    UNION {[1 .. k -> [hour : Hours, points : PointValues]] : k \in 1 .. MaxTimeRows}

RECURSIVE InsertAscending(_, _)
InsertAscending(x, xs) ==
    IF xs = <<>> THEN <<x>>
    ELSE IF x <= Head(xs) THEN <<x>> \o xs
    ELSE <<Head(xs)>> \o InsertAscending(x, Tail(xs))

RECURSIVE SortValues(_)
SortValues(xs) ==
    IF xs = <<>> THEN <<>> ELSE InsertAscending(Head(xs), SortValues(Tail(xs)))

RECURSIVE SumValues(_)
SumValues(xs) == IF xs = <<>> THEN 0 ELSE Head(xs) + SumValues(Tail(xs))

\* 'mean' of a group, as the fraction sum / count
MeanOf(xs) == [sum |-> SumValues(xs), count |-> Len(xs)]

\* 'median' of a group, doubled to stay an integer
MedianTwiceOf(xs) ==
    LET v == SortValues(xs)
        n == Len(v)
    IN IF n % 2 = 1 THEN 2 * v[(n + 1) \div 2] ELSE v[n \div 2] + v[n \div 2 + 1]

\* .agg({...: 'mean'}) or .agg({...: 'median'}) on the values of one group
Aggregate(how, xs) == IF how = "mean" THEN MeanOf(xs) ELSE MedianTwiceOf(xs)

\* the points of the rows labelled b, in table order
GroupValues(rows, labels, b) ==
    LET idx == SelectSeq([i \in DOMAIN rows |-> i], LAMBDA i : labels[i] = b)
    IN [j \in DOMAIN idx |-> rows[idx[j]].points]

\* df.groupby(label).agg(...).reset_index(), then Categorical over
\* time_of_day_order and sort_values: one row per label that occurs, in the
\* order of time_of_day_order
GroupByTimeOfDay(rows, labels, how) ==
    LET occurs == SelectSeq(time_of_day_order,
                            LAMBDA b : \E i \in DOMAIN labels : labels[i] = b)
    IN [j \in DOMAIN occurs |->
            [bucket |-> occurs[j], value |-> Aggregate(how, GroupValues(rows, labels, occurs[j]))]]

\* df[label].value_counts().reindex(time_of_day_order, fill_value=0)
TimeOfDayCounts(labels) ==
    [j \in DOMAIN time_of_day_order |->
        [bucket |-> time_of_day_order[j],
         count |-> Cardinality({i \in DOMAIN labels : labels[i] = time_of_day_order[j]})]]

TimeInit ==
    /\ pc = "time_start"
    /\ \E rows \in TimeRows : df = [rows |-> rows]
    /\ summary = <<>>
    /\ kpi = <<>>
    /\ session = <<>>
    /\ run = <<>>
    /\ LoadIdle
    /\ CleanIdle

\* line 530: the label column
AssignTimeOfDay ==
    /\ pc = "time_start"
    /\ kpi' = [labels |-> [i \in DOMAIN df.rows |-> Categorize(df.rows[i].hour)]]
    /\ pc' = "time_labelled"
    /\ UNCHANGED <<df, summary, session, run, loadVars, cleanVars>>

\* lines 532-546 and 610-617: mean table, counts, median table
AggregateTimeOfDay ==
    /\ pc = "time_labelled"
    /\ kpi' = [labels |-> kpi.labels,
               mean |-> GroupByTimeOfDay(df.rows, kpi.labels, "mean"),
               counts |-> TimeOfDayCounts(kpi.labels),
               median |-> GroupByTimeOfDay(df.rows, kpi.labels, "median")]
    /\ pc' = "time_done"
    /\ UNCHANGED <<df, summary, session, run, loadVars, cleanVars>>

TimeNext == AssignTimeOfDay \/ AggregateTimeOfDay

TimeSpec == TimeInit /\ [][TimeNext]_vars

\* the nine hour intervals [lo, hi) with their labels
BucketIntervals ==
    { [lo |-> 0, hi |-> 3, label |-> "0-3"], [lo |-> 3, hi |-> 6, label |-> "3-6"],
      [lo |-> 6, hi |-> 9, label |-> "6-9"], [lo |-> 9, hi |-> 12, label |-> "9-12"],
      [lo |-> 12, hi |-> 15, label |-> "12-15"], [lo |-> 15, hi |-> 18, label |-> "15-18"],
      [lo |-> 18, hi |-> 21, label |-> "18-21"], [lo |-> 21, hi |-> 22, label |-> "21-22"],
      [lo |-> 22, hi |-> 24, label |-> "22-24"] }

Containing(h) == {iv \in BucketIntervals : iv.lo <= h /\ h < iv.hi}

\* C13: every row is labelled with exactly one of the nine bucket labels, the
\* label of the one interval among [0,3) [3,6) [6,9) [9,12) [12,15) [15,18)
\* [18,21) [21,22) [22,24) that contains the hour of its timestamp; the nine
\* intervals cover 0..23 without gap or overlap.
C13_HourBuckets ==
    /\ \A h \in Hours : Cardinality(Containing(h)) = 1
    /\ Cardinality(BucketIntervals) = 9
    /\ pc \in {"time_labelled", "time_done"} =>
          \A i \in DOMAIN df.rows :
              /\ \E j \in DOMAIN time_of_day_order : kpi.labels[i] = time_of_day_order[j]
              /\ \A iv \in Containing(df.rows[i].hour) : kpi.labels[i] = iv.label

C13_Witness ==
    /\ pc = "time_labelled"
    /\ Len(df.rows) = 2
    /\ df.rows[1].hour = 21 /\ kpi.labels[1] = "21-22"
    /\ df.rows[2].hour = 22 /\ kpi.labels[2] = "22-24"

\* C14: for a non-empty table the mean table, the median table and the row
\* counts each have exactly nine bucket rows, in the order from "0-3" to
\* "22-24", with count 0 for a bucket no broadcast falls into.
C14_NineBucketRows ==
    (pc = "time_done" /\ Len(df.rows) > 0) =>
        /\ Len(kpi.mean) = 9
        /\ Len(kpi.median) = 9
        /\ Len(kpi.counts) = 9
        /\ \A j \in 1 .. 9 :
              /\ kpi.mean[j].bucket = time_of_day_order[j]
              /\ kpi.median[j].bucket = time_of_day_order[j]
              /\ kpi.counts[j].bucket = time_of_day_order[j]

----------------------------------------------------------------------------
(* Hit detection (lines 805-836).                                           *)

\* Series.mean(): the mean of the values present, as sum / count; count 0
\* stands for the NaN of a column without any value
ColumnMean(rows, c) ==
    LET kept == DropNa(rows, {c})
    IN [sum |-> SumCol(kept, c), count |-> Len(kept)]

\* pd.notna(row[num]) and row[den] > 0 and row[num] / row[den] >= pct / 100
RatioAtLeast(row, num, den, pct) ==
    /\ row[num] # NaN
    /\ row[den] # NaN /\ row[den] > 0
    /\ 100 * row[num] >= pct * row[den]

ShortStayHitFillZero(row) ==
    LET n == IF row["short_stay"] = NaN THEN 0 ELSE row["short_stay"]
    IN /\ row["members"] # NaN /\ row["members"] > 0
       /\ 100 * n <= 20 * row["members"]

\* line 817: the short-stay rule, rate <= 0.20
ShortStayHit(row) ==
    /\ row["short_stay"] # NaN
    /\ row["members"] # NaN /\ row["members"] > 0
    /\ 100 * row["short_stay"] <= 20 * row["members"]

\* pd.notna(row[c]) and row[c] >= avg * (twice / 2); a comparison with a NaN
\* mean is false
AtLeastTimesMean(row, c, avg, twice) ==
    /\ row[c] # NaN
    /\ avg.count > 0
    /\ 2 * row[c] * avg.count >= twice * avg.sum

When(cond, name) == IF cond THEN <<name>> ELSE <<>>

HitItemsFirstMatch(row, avg) ==
    IF RatioAtLeast(row, "first_visitors", "total_views", 10) THEN <<"first_visit_rate">>
    ELSE IF RatioAtLeast(row, "first_commenters", "commenters", 8) THEN <<"first_comment_rate">>
    ELSE IF RatioAtLeast(row, "first_gifters", "gifters", 10) THEN <<"first_gift_rate">>
    ELSE IF ShortStayHit(row) THEN <<"short_stay_rate">>
    ELSE IF AtLeastTimesMean(row, "points", avg["points"], 5) THEN <<"points">>
    ELSE IF AtLeastTimesMean(row, "sg_total", avg["sg_total"], 5) THEN <<"sg_total">>
    ELSE IF AtLeastTimesMean(row, "sg_gifters", avg["sg_gifters"], 4) THEN <<"sg_gifters">>
    ELSE IF AtLeastTimesMean(row, "gifters", avg["gifters"], 4) THEN <<"gifters">>
    ELSE IF AtLeastTimesMean(row, "commenters", avg["commenters"], 4) THEN <<"commenters">>
    ELSE <<>>

\* lines 813-822: hit_items of one row, nine separate if statements
HitItems(row, avg) ==
    When(RatioAtLeast(row, "first_visitors", "total_views", 10), "first_visit_rate")
    \o When(RatioAtLeast(row, "first_commenters", "commenters", 8), "first_comment_rate")
    \o When(RatioAtLeast(row, "first_gifters", "gifters", 10), "first_gift_rate")
    \o When(ShortStayHit(row), "short_stay_rate")
    \o When(AtLeastTimesMean(row, "points", avg["points"], 5), "points")
    \o When(AtLeastTimesMean(row, "sg_total", avg["sg_total"], 5), "sg_total")
    \o When(AtLeastTimesMean(row, "sg_gifters", avg["sg_gifters"], 4), "sg_gifters")
    \o When(AtLeastTimesMean(row, "gifters", avg["gifters"], 4), "gifters")
    \o When(AtLeastTimesMean(row, "commenters", avg["commenters"], 4), "commenters")

MeanColumns == {"points", "sg_total", "sg_gifters", "gifters", "commenters"}

\* lines 811-828: the rows with a non-empty hit_items, in table order
HitBroadcasts(rows, items) ==
    LET idx == SelectSeq([i \in DOMAIN rows |-> i], LAMBDA i : items[i] # <<>>)
    IN [j \in DOMAIN idx |-> [index |-> idx[j], hit_items |-> items[idx[j]]]]

\* Which columns of a table carry values: the columns of one ratio rule, one
\* mean-based column, or the short-stay columns together with the points
HitScenarios ==
    { [num |-> "first_visitors", den |-> "total_views", metric |-> "none",
       nums |-> {NaN, 0, 3}, dens |-> {NaN, 0, 10}, metrics |-> {NaN}],
      [num |-> "first_commenters", den |-> "commenters", metric |-> "none",
       nums |-> {NaN, 0, 3}, dens |-> {NaN, 0, 10}, metrics |-> {NaN}],
      [num |-> "first_gifters", den |-> "gifters", metric |-> "none",
       nums |-> {NaN, 0, 3}, dens |-> {NaN, 0, 10}, metrics |-> {NaN}],
      [num |-> "short_stay", den |-> "members", metric |-> "none",
       nums |-> {NaN, 0, 3}, dens |-> {NaN, 0, 10}, metrics |-> {NaN}],
      [num |-> "none", den |-> "none", metric |-> "sg_total",
       nums |-> {NaN}, dens |-> {NaN}, metrics |-> {NaN, 0, 10}],
      [num |-> "none", den |-> "none", metric |-> "sg_gifters",
       nums |-> {NaN}, dens |-> {NaN}, metrics |-> {NaN, 0, 10}],
      [num |-> "short_stay", den |-> "members", metric |-> "points",
       nums |-> {NaN, 0, 3}, dens |-> {0, 10}, metrics |-> {NaN, 0, 10}] }

HitRow(s, n, d, x) ==
    [c \in NumericColumns |->
        IF c = s.num THEN n ELSE IF c = s.den THEN d ELSE IF c = s.metric THEN x ELSE NaN]

HitInit ==
    /\ pc = "hit_start"
    /\ \E s \in HitScenarios :
       \E k \in 1 .. MaxHitRows :
       \E ns \in [1 .. k -> s.nums] :
       \E ds \in [1 .. k -> s.dens] :
       \E xs \in [1 .. k -> s.metrics] :
           df = [rows |-> [i \in 1 .. k |-> HitRow(s, ns[i], ds[i], xs[i])]]
    /\ summary = <<>>
    /\ kpi = <<>>
    /\ session = <<>>
    /\ run = <<>>
    /\ LoadIdle
    /\ CleanIdle

\* lines 805-836: the five means, the loop over the rows, the hit table
DetectHits ==
    /\ pc = "hit_start"
    /\ LET avg == [c \in MeanColumns |-> ColumnMean(df.rows, c)]
           items == [i \in DOMAIN df.rows |-> HitItems(df.rows[i], avg)]
       IN kpi' = [hit_items |-> items, hit_broadcasts |-> HitBroadcasts(df.rows, items)]
    /\ pc' = "hit_done"
    /\ UNCHANGED <<df, summary, session, run, loadVars, cleanVars>>

HitNext == DetectHits

HitSpec == HitInit /\ [][HitNext]_vars

\* the nine rules as a table
RatioRules ==
    { [name |-> "first_visit_rate", num |-> "first_visitors", den |-> "total_views", pct |-> 10, atleast |-> TRUE],
      [name |-> "first_comment_rate", num |-> "first_commenters", den |-> "commenters", pct |-> 8, atleast |-> TRUE],
      [name |-> "first_gift_rate", num |-> "first_gifters", den |-> "gifters", pct |-> 10, atleast |-> TRUE],
      [name |-> "short_stay_rate", num |-> "short_stay", den |-> "members", pct |-> 20, atleast |-> FALSE] }

MeanRules ==
    { [name |-> "points", col |-> "points", twice |-> 5],
      [name |-> "sg_total", col |-> "sg_total", twice |-> 5],
      [name |-> "sg_gifters", col |-> "sg_gifters", twice |-> 4],
      [name |-> "gifters", col |-> "gifters", twice |-> 4],
      [name |-> "commenters", col |-> "commenters", twice |-> 4] }

\* row i of the table satisfies the ratio rule r
SatisfiesRatio(rows, i, r) ==
    /\ rows[i][r.num] # NaN /\ rows[i][r.den] # NaN /\ rows[i][r.den] > 0
    /\ IF r.atleast THEN 100 * rows[i][r.num] >= r.pct * rows[i][r.den]
       ELSE 100 * rows[i][r.num] <= r.pct * rows[i][r.den]

\* row i carries a value of at least twice/2 times the mean of the column
SatisfiesMean(rows, i, r) ==
    LET I == {j \in DOMAIN rows : rows[j][r.col] # NaN}
    IN /\ i \in I
       /\ 2 * rows[i][r.col] * Cardinality(I) >= r.twice * SumOver(I, rows, r.col)

Satisfied(rows, i) ==
    {r.name : r \in {q \in RatioRules : SatisfiesRatio(rows, i, q)}}
    \cup {r.name : r \in {q \in MeanRules : SatisfiesMean(rows, i, q)}}

Names(items) == {items[j] : j \in DOMAIN items}

\* C15: the rule names recorded for a row are exactly the rules the row
\* satisfies, each once, and a row is in the hit output if and only if it
\* satisfies at least one rule (the output carries its recorded names).
C15_IndependentRules ==
    pc = "hit_done" =>
        /\ \A i \in DOMAIN df.rows :
              /\ Names(kpi.hit_items[i]) = Satisfied(df.rows, i)
              /\ Len(kpi.hit_items[i]) = Cardinality(Satisfied(df.rows, i))
              /\ (\E j \in DOMAIN kpi.hit_broadcasts : kpi.hit_broadcasts[j].index = i)
                     <=> Satisfied(df.rows, i) # {}
        /\ \A j \in DOMAIN kpi.hit_broadcasts :
              kpi.hit_broadcasts[j].hit_items = kpi.hit_items[kpi.hit_broadcasts[j].index]

\* a row over both the points threshold and the short-stay threshold carries
\* both names; a row meeting no rule is not in the output
C15_Witness ==
    /\ pc = "hit_done"
    /\ Len(df.rows) = 3
    /\ df.rows[1]["points"] = 10 /\ df.rows[1]["short_stay"] = 0 /\ df.rows[1]["members"] = 10
    /\ df.rows[2]["points"] = 0 /\ df.rows[2]["short_stay"] = 3 /\ df.rows[2]["members"] = 10
    /\ kpi.hit_items[1] = <<"short_stay_rate", "points">>
    /\ kpi.hit_items[2] = <<>>
    /\ \A j \in DOMAIN kpi.hit_broadcasts : kpi.hit_broadcasts[j].index # 2

\* C16: a recorded ratio rule has its numerator present and its denominator
\* present and not zero in that row, a recorded mean-based rule has its
\* metric present; in particular a missing short-stay count never matches the
\* short-stay rule.
C16_MissingNeverMatches ==
    pc = "hit_done" =>
        \A i \in DOMAIN df.rows :
            /\ \A r \in RatioRules :
                  r.name \in Names(kpi.hit_items[i]) =>
                      /\ df.rows[i][r.num] # NaN
                      /\ df.rows[i][r.den] # NaN
                      /\ df.rows[i][r.den] # 0
            /\ \A r \in MeanRules :
                  r.name \in Names(kpi.hit_items[i]) => df.rows[i][r.col] # NaN

\* a row without a short-stay count beside a row with a low short-stay rate
C16_Witness ==
    /\ pc = "hit_done"
    /\ Len(df.rows) = 2
    /\ df.rows[1]["short_stay"] = NaN /\ df.rows[1]["members"] = 10
    /\ df.rows[2]["short_stay"] = 0 /\ df.rows[2]["members"] = 10
    /\ df.rows[2]["points"] = NaN
    /\ kpi.hit_items[1] = <<>>
    /\ kpi.hit_items[2] = <<"short_stay_rate">>

----------------------------------------------------------------------------
(* The individual view as a sequence of blocks over the columns of the     *)
(* table (lines 283-836): which columns each block reads without a guard.  *)

RatioColumns ==
    UNION {{RatioMetrics[i].num, RatioMetrics[i].den} : i \in DOMAIN RatioMetrics}

\* name, the columns read unguarded, the columns read behind an "in columns"
\* test
AnalysisBlocks ==
    << [name |-> "benchmark", reads |-> RatioColumns, guarded |-> {}],
       [name |-> "trend", reads |-> {"points", "minutes", "total_views"}, guarded |-> {}],
       [name |-> "time_mean", reads |-> {"points", "total_views", "comments"}, guarded |-> {}],
       [name |-> "time_median", reads |-> {"points", "total_views", "comments"}, guarded |-> {}],
       [name |-> "detail", reads |-> {}, guarded |-> {}],
       [name |-> "summary", reads |-> {"points"}, guarded |-> {"followers"}] >>
    \o [i \in DOMAIN RatioMetrics |->
          [name |-> RatioMetrics[i].name,
           reads |-> {RatioMetrics[i].num, RatioMetrics[i].den},
           guarded |-> {}]]
    \o << [name |-> "hits",
           reads |-> MeanColumns \cup UNION {{r.num, r.den} : r \in RatioRules},
           guarded |-> {}] >>

\* the benchmark block runs only on a non-empty all-broadcasters table
Reads(b, d) ==
    IF b.name = "benchmark" /\ ~d.mksp_nonempty THEN {} ELSE b.reads

AbsentSets == {A \in SUBSET NumericColumns : Cardinality(A) <= MaxAbsent}

AnalysisInit ==
    /\ pc = "analysis"
    /\ \E A \in AbsentSets : \E m \in BOOLEAN : df = [absent |-> A, mksp_nonempty |-> m]
    /\ summary = <<>>
    /\ kpi = [outputs |-> <<>>, raised |-> "none", next |-> 1]
    /\ session = <<>>
    /\ run = <<>>
    /\ LoadIdle
    /\ CleanIdle

\* the next block finds its columns and renders; a guarded column that is
\* absent leaves its part out
BlockCompletes ==
    /\ pc = "analysis"
    /\ kpi.next <= Len(AnalysisBlocks)
    /\ LET b == AnalysisBlocks[kpi.next]
       IN /\ Reads(b, df) \cap df.absent = {}
          /\ kpi' = [outputs |-> Append(kpi.outputs,
                                        [block |-> b.name, omitted |-> b.guarded \cap df.absent]),
                     raised |-> "none",
                     next |-> kpi.next + 1]
          /\ pc' = IF kpi.next = Len(AnalysisBlocks) THEN "analysis_done" ELSE "analysis"
    /\ UNCHANGED <<df, summary, session, run, loadVars, cleanVars>>

\* the next block indexes a column the table does not have: KeyError ends the
\* script run
BlockRaises ==
    /\ pc = "analysis"
    /\ kpi.next <= Len(AnalysisBlocks)
    /\ Reads(AnalysisBlocks[kpi.next], df) \cap df.absent # {}
    /\ kpi' = [kpi EXCEPT !.raised = "KeyError"]
    /\ pc' = "analysis_failed"
    /\ UNCHANGED <<df, summary, session, run, loadVars, cleanVars>>

AnalysisNext == BlockCompletes \/ BlockRaises

AnalysisSpec == AnalysisInit /\ [][AnalysisNext]_vars

Produced == {kpi.outputs[j].block : j \in DOMAIN kpi.outputs}

\* C17: with a numeric column absent from the table the analysis raises no
\* error and completes: every block that does not read the column is
\* produced, a block that reads it is left out or marked.
C17_AbsentColumnTolerated ==
    pc \in {"analysis", "analysis_done", "analysis_failed"} =>
        /\ kpi.raised = "none"
        /\ pc # "analysis_failed"
        /\ pc = "analysis_done" =>
              \A i \in DOMAIN AnalysisBlocks :
                  AnalysisBlocks[i].reads \cap df.absent = {}
                      => AnalysisBlocks[i].name \in Produced

----------------------------------------------------------------------------
(* One browser session: script runs over st.session_state (lines 55-320    *)
(* and the captions of lines 727-797).  A date range is written by a name. *)

Ranges == {"R1", "R2"}

MkUnset == [set |-> FALSE, range |-> "none", run |-> 0]

NoPress == [kind |-> "none", range |-> "none"]

\* selected_date_range_val: a complete range, or a tuple with only a start
PeriodSelections == Ranges \cup {"partial"}

\* selected_event_val: an event of the account (named by its range), or None
EventSelections == Ranges \cup {"none"}

\* what the second fetch_event_data() of the run returns: the cached table of
\* the first call, a refetched table without the event, or the empty table
\* of a failed refetch
SecondFetch == {"cached", "lacks_event", "empty"}

SessionInit ==
    /\ pc = "session"
    /\ session = [run_analysis |-> "unset", range |-> "none", mk |-> MkUnset]
    /\ run = [n |-> 0, last_press |-> NoPress, pipeline |-> FALSE,
              range_used |-> "none", captions |-> FALSE, mk_shown |-> MkUnset]
    /\ df = <<>>
    /\ summary = <<>>
    /\ kpi = <<>>
    /\ LoadIdle
    /\ CleanIdle

\* lines 268-273: the end of the button handler
AfterPress(sess, final) ==
    IF final \in Ranges
    THEN [sess EXCEPT !.run_analysis = "true", !.range = final]
    ELSE [sess EXCEPT !.run_analysis = "false"]

\* lines 275-276
Gate(sess) ==
    IF sess.run_analysis = "unset" THEN [sess EXCEPT !.run_analysis = "false"] ELSE sess

\* lines 283-315: the twelve benchmark values are stored only when the
\* all-broadcasters table of this run is non-empty
Benchmark(sess, n, mksp_ok) ==
    IF sess.run_analysis = "true" /\ mksp_ok
    THEN [sess EXCEPT !.mk = [set |-> TRUE, range |-> sess.range, run |-> n]]
    ELSE sess

\* lines 318-320, 486 and 727-797: the captions are rendered in the
\* individual view of a non-empty table
CaptionsShown(sess, acct, ind_ok) ==
    sess.run_analysis = "true" /\ ind_ok /\ acct # "mksp"

\* the rest of a script run after the button block: gate, benchmark,
\* individual load, view
FinishRun(sess, press, acct, mksp_ok, ind_ok) ==
    LET n == run.n + 1
        gated == Gate(sess)
        after == Benchmark(gated, n, mksp_ok)
        shown == CaptionsShown(after, acct, ind_ok)
    IN /\ session' = after
       /\ run' = [n |-> n,
                  last_press |-> press,
                  pipeline |-> (after.run_analysis = "true"),
                  range_used |-> IF after.run_analysis = "true" THEN after.range ELSE "none",
                  captions |-> shown,
                  mk_shown |-> IF shown THEN after.mk ELSE MkUnset]

\* a table can come back only for a valid account id
LoadOutcomes(acct) == IF InvalidAccount(acct) THEN {FALSE} ELSE BOOLEAN

\* a script run caused by another widget: st.button is False
Rerun ==
    /\ pc = "session"
    /\ run.n < MaxRuns
    /\ \E acct \in AccountInputs : \E mksp_ok \in BOOLEAN : \E ind_ok \in LoadOutcomes(acct) :
           FinishRun(session, run.last_press, acct, mksp_ok, ind_ok)
    /\ UNCHANGED <<pc, df, summary, kpi, loadVars, cleanVars>>

\* lines 241-249 and 268-273: the button pressed in period mode
PressPeriod ==
    /\ pc = "session"
    /\ run.n < MaxRuns
    /\ \E sel \in PeriodSelections :
       \E acct \in AccountInputs : \E mksp_ok \in BOOLEAN : \E ind_ok \in LoadOutcomes(acct) :
           LET final == IF sel \in Ranges THEN sel ELSE "none"
               press == [kind |-> IF final \in Ranges THEN "resolved" ELSE "failed",
                         range |-> final]
           IN FinishRun(AfterPress(session, final), press, acct, mksp_ok, ind_ok)
    /\ UNCHANGED <<pc, df, summary, kpi, loadVars, cleanVars>>

\* lines 251-266: the range of the event-mode press, "none" after st.error
EventRange(acct, sel, second) ==
    IF acct = "" THEN "none"
    ELSE IF sel = "none" THEN "none"
    ELSE IF second = "cached" THEN sel
    ELSE "none"

\* lines 251-273: the button pressed in event mode, the handler runs to its
\* end
PressEvent ==
    /\ pc = "session"
    /\ run.n < MaxRuns
    /\ \E acct \in AccountInputs : \E sel \in EventSelections : \E second \in SecondFetch :
       \E mksp_ok \in BOOLEAN : \E ind_ok \in LoadOutcomes(acct) :
           /\ acct = "" => sel = "none"
           /\ ~(acct # "" /\ sel # "none" /\ second = "empty")
           /\ LET final == EventRange(acct, sel, second)
                  press == [kind |-> IF final \in Ranges THEN "resolved" ELSE "failed",
                            range |-> final]
              IN FinishRun(AfterPress(session, final), press, acct, mksp_ok, ind_ok)
    /\ UNCHANGED <<pc, df, summary, kpi, loadVars, cleanVars>>

\* lines 256-260: the second fetch_event_data() returns the empty table of a
\* failed refetch and event_df['...'] raises KeyError: the script run ends
\* inside the handler, st.session_state keeps what it held
PressEventRaises ==
    /\ pc = "session"
    /\ run.n < MaxRuns
    /\ \E acct \in AccountInputs : \E sel \in EventSelections : \E second \in SecondFetch :
           /\ acct # "" /\ sel # "none" /\ second = "empty"
           /\ run' = [n |-> run.n + 1,
                      last_press |-> [kind |-> "raised", range |-> "none"],
                      pipeline |-> FALSE, range_used |-> "none",
                      captions |-> FALSE, mk_shown |-> MkUnset]
    /\ UNCHANGED <<pc, session, df, summary, kpi, loadVars, cleanVars>>

SessionNext == Rerun \/ PressPeriod \/ PressEvent \/ PressEventRaises

SessionSpec == SessionInit /\ [][SessionNext]_vars

\* C18: benchmark values of the session shown beside the ratios of a run were
\* computed from the all-broadcasters table of the period that run analyses;
\* values stored by an earlier run for a different period are never shown.
C18_BenchmarkOfSamePeriod ==
    (pc = "session" /\ run.captions /\ run.mk_shown.set) =>
        run.mk_shown.range = run.range_used

\* C19: run_analysis = True implies that the session's date range is the one
\* resolved by the most recent button press; a press that resolves no range
\* leaves run_analysis False, and the pipeline only runs with that range.
C19_RangeOfLastPress ==
    pc = "session" =>
        /\ session.run_analysis = "true" =>
              /\ run.last_press.kind = "resolved"
              /\ session.range = run.last_press.range
        /\ run.pipeline =>
              /\ run.last_press.kind = "resolved"
              /\ run.range_used = run.last_press.range

====
